---------------------------- MODULE Spec2Model ----------------------------
(***************************************************************************)
(* A model of deep_research_minimal.py: the interactive entry point, the   *)
(* planner (make_plan), the agent loop of run_research, the memory manager *)
(* (update_memory) and the summarizer.                                     *)
(*                                                                         *)
(* Python strings are sequences of one-character strings.  A Python value  *)
(* produced by json.loads is a record [type, items]: for a list, items are *)
(* its elements; for a str, its characters (what iteration yields); for a  *)
(* dict, its keys; for an int or None, nothing (iteration raises).         *)
(***************************************************************************)
EXTENDS Integers, Sequences, FiniteSets, TLC

(* ------------------------------ bounds --------------------------------- *)

\* longest line typed at the prompt
MaxInputLen == 2
\* longest JSON array the completion tool returns as a plan
MaxPlan == 2
\* most result anchors in one search page
MaxParsed == 2
\* longest batch handed to update_memory in the memory specification
MaxBatch == 21
\* most update_memory calls in the memory specification
MaxCalls == 2
\* longest plan in the specification of the end of a round
MaxRoundPlan == 21
\* longest anchor text fed to the parser, in data events
MaxTitleLen == 2
\* most results the parser records in the parser specification
MaxRecorded == 6

(* -------------------------- program constants -------------------------- *)

ShortTermCap == 10
LongTermCap == 20
DefaultMaxIterations == 3
DefaultMaxResults == 5

(* ------------------------------ helpers -------------------------------- *)

Min(a, b) == IF a < b THEN a ELSE b

\* s[:n] for n >= 0
Take(s, n) == SubSeq(s, 1, Min(n, Len(s)))

\* s[-n:] for n > 0
LastN(s, n) == SubSeq(s, Len(s) - Min(n, Len(s)) + 1, Len(s))

SeqsUpTo(S, n) == UNION {[1..k -> S] : k \in 0..n}

(* ------------------------------ strings -------------------------------- *)

Chars == {" ", "a"}

\* whitespace, which str.strip() removes
IsSpace(c) == c \in {" ", "\t"}

RECURSIVE LStrip(_)
LStrip(s) == IF s # <<>> /\ IsSpace(Head(s)) THEN LStrip(Tail(s)) ELSE s

RECURSIVE RStrip(_)
RStrip(s) ==
    IF s # <<>> /\ IsSpace(s[Len(s)]) THEN RStrip(SubSeq(s, 1, Len(s) - 1)) ELSE s

\* the line taken as typed, nothing stripped
NoStrip(s) == s

\* str.strip()
Strip(s) == RStrip(LStrip(s))

RawInputs == SeqsUpTo(Chars, MaxInputLen)

\* the sub-questions the completion tool writes into its answer
SubQuestions == {<<"a">>, <<"b">>}

(* ----------------------- JSON text and json.loads ---------------------- *)

Tok(t, s) == [t |-> t, s |-> s]
LBracket == Tok("[", <<>>)
RBracket == Tok("]", <<>>)
Comma == Tok(",", <<>>)
LBrace == Tok("{", <<>>)
RBrace == Tok("}", <<>>)
StrTok(s) == Tok("str", s)
NumTok == Tok("num", <<"5">>)
NullTok == Tok("null", <<>>)
\* a word that is no JSON token, as in a prose answer
WordTok == Tok("word", <<"a">>)

RECURSIVE JoinItems(_)
JoinItems(items) ==
    IF items = <<>> THEN <<>>
    ELSE IF Len(items) = 1 THEN <<StrTok(items[1])>>
    ELSE <<StrTok(items[1]), Comma>> \o JoinItems(Tail(items))

\* the text of a JSON array of strings
ListText(items) == <<LBracket>> \o JoinItems(items) \o <<RBracket>>

PyValue(type, items) == [type |-> type, items |-> items]
PyList(items) == PyValue("list", items)
PyStr(s) == PyValue("str", [i \in 1..Len(s) |-> <<s[i]>>])
PyDict(keys) == PyValue("dict", keys)
PyInt == PyValue("int", <<>>)
PyNone == PyValue("NoneType", <<>>)

IsScalarTok(tok) == tok.t \in {"str", "num", "null"}

ScalarValue(tok) ==
    IF tok.t = "str" THEN PyStr(tok.s)
    ELSE IF tok.t = "num" THEN PyInt
    ELSE PyNone

\* the elements between the brackets: strings separated by commas
IsElements(inner) ==
    /\ Len(inner) % 2 = 1
    /\ \A i \in 1..Len(inner) :
          IF i % 2 = 1 THEN inner[i].t = "str" ELSE inner[i] = Comma

Elements(inner) == [i \in 1..((Len(inner) + 1) \div 2) |-> inner[2 * i - 1].s]

Decoded(v) == [ok |-> TRUE, value |-> v]
JSONDecodeError == [ok |-> FALSE, value |-> PyNone]

\* json.loads on the documents this model writes: a scalar, an empty
\* object, or an array of strings; anything else raises JSONDecodeError
JsonLoads(text) ==
    IF Len(text) = 1 /\ IsScalarTok(text[1]) THEN Decoded(ScalarValue(text[1]))
    ELSE IF text = <<LBrace, RBrace>> THEN Decoded(PyDict(<<>>))
    ELSE IF Len(text) >= 2 /\ text[1] = LBracket /\ text[Len(text)] = RBracket
         THEN LET inner == SubSeq(text, 2, Len(text) - 1) IN
              IF inner = <<>> THEN Decoded(PyList(<<>>))
              ELSE IF IsElements(inner) THEN Decoded(PyList(Elements(inner)))
              ELSE JSONDecodeError
    ELSE JSONDecodeError

ListTexts == {ListText(p) : p \in SeqsUpTo(SubQuestions, MaxPlan)}

MalformedTexts ==
    { <<>>,
      <<WordTok>>,
      <<LBracket>>,
      <<LBracket, StrTok(<<"a">>)>>,
      <<LBracket, StrTok(<<"a">>), Comma, RBracket>>,
      <<StrTok(<<"a">>), StrTok(<<"b">>)>> }

NonListTexts ==
    { <<LBrace, RBrace>>, <<StrTok(<<"a", "b">>)>>, <<StrTok(<<>>)>>,
      <<NumTok>>, <<NullTok>> }

\* what the completion tool may answer to the planning request
CompletionTexts == ListTexts \cup MalformedTexts \cup NonListTexts


(* ----------------------------- search tool ----------------------------- *)

\* the i-th (title, url) pair DuckDuckGoHTMLParser records: the urls differ
ParsedItem(i) == [title |-> <<"t">>, url |-> [j \in 1..i |-> "u"]]

\* the result anchors of the longest page, in document order
Anchors == [i \in 1..MaxParsed |-> ParsedItem(i)]

\* parser.results after parser.feed(response.text): a run of those anchors
Pages == {SubSeq(Anchors, i, j) : i \in 1..(MaxParsed + 1), j \in 0..MaxParsed}

SearchResult(item) == [title |-> item.title, url |-> item.url, snippet |-> <<>>]

\* search_web after a successful GET: parser.results[:max_results] as records
SearchWeb(parsed, max_results) ==
    [i \in 1..Len(Take(parsed, max_results)) |-> SearchResult(parsed[i])]

(* ------------------------- DuckDuckGoHTMLParser ------------------------ *)

\* DuckDuckGoHTMLParser.__init__
NewParser ==
    [in_result |-> FALSE, current_link |-> <<>>, current_title |-> <<>>,
     results |-> <<>>]

Attr(name, value) == [name |-> name, value |-> value]

\* the class value the parser looks for
ResultClass == <<"result__a">>

\* dict(attrs).get(name, default): the last attribute of that name wins
RECURSIVE AttrGet(_, _, _)
AttrGet(attrs, name, default) ==
    IF attrs = <<>> THEN default
    ELSE IF attrs[Len(attrs)].name = name THEN attrs[Len(attrs)].value
    ELSE AttrGet(SubSeq(attrs, 1, Len(attrs) - 1), name, default)

\* handle_starttag
HandleStartTag(p, tag, attrs) ==
    IF tag = "a" /\ AttrGet(attrs, "class", <<>>) = ResultClass
    THEN [p EXCEPT !.in_result = TRUE, !.current_link = AttrGet(attrs, "href", <<>>)]
    ELSE p

\* if self.current_title and self.current_link: self.results.append(...)
Record(p) ==
    IF p.current_title # <<>> /\ p.current_link # <<>>
    THEN Append(p.results, [title |-> Strip(p.current_title), url |-> p.current_link])
    ELSE p.results

\* handle_endtag
HandleEndTag(p, tag) ==
    IF tag = "a" /\ p.in_result
    THEN [in_result |-> FALSE, current_link |-> <<>>, current_title |-> <<>>,
          results |-> Record(p)]
    ELSE p

\* handle_data
HandleData(p, data) ==
    IF p.in_result THEN [p EXCEPT !.current_title = p.current_title \o data] ELSE p

(* ------------------------------- planner ------------------------------- *)

\* make_plan once call_openrouter has returned content
MakePlan(q, content) ==
    LET r == JsonLoads(content) IN
    IF r.ok THEN r.value ELSE PyList(<<q>>)

\* whether "for sub_question in plan" can start
Iterable(v) == v.type \in {"list", "str", "dict"}

(* --------------------------- memory manager ---------------------------- *)

\* the last entries of the batch instead of the first
ShortTermLast(new_facts) == LastN(new_facts, ShortTermCap)

ShortTerm(new_facts) == Take(new_facts, ShortTermCap)

\* the window kept at the front: the newest entries are the ones dropped
LongTermKeepFirst(long_term, new_facts) == Take(long_term \o new_facts, LongTermCap)

\* a batch that long_term already ends with is not appended again
LongTermNoRepeat(long_term, new_facts) ==
    IF LastN(long_term, Len(new_facts)) = new_facts
    THEN LastN(long_term, LongTermCap)
    ELSE LastN(long_term \o new_facts, LongTermCap)

LongTerm(long_term, new_facts) == LastN(long_term \o new_facts, LongTermCap)

\* update_memory(state, new_facts) on state.memory
UpdateMemory(mem, new_facts) ==
    [short_term |-> ShortTerm(new_facts),
     long_term |-> LongTerm(mem.long_term, new_facts)]

\* a note that leaves the number of results out
NoteWithoutCount(sub_question, n) == [sub |-> sub_question, n |-> 0]

\* the note the loop writes for one sub-question
Note(sub_question, n) == [sub |-> sub_question, n |-> n]

(* -------------------------------- state -------------------------------- *)

VARIABLES
    pc,               \* where the process is
    raw_input,        \* the line typed at the prompt
    user_question,    \* the stripped line
    api_key,          \* OPENROUTER_API_KEY: "unset", "empty" or "set"
    constructed,      \* whether the ResearchState exists
    question, plan, notes, sources, iterations, max_iterations, done, memory,
    content,          \* the local of make_plan: what call_openrouter returned
    round_notes,      \* the local of the loop body
    idx,              \* position of the for loop in plan
    results,          \* the local holding what search_web returned
    completion_log,   \* the POSTs made to the completion endpoint
    search_log,       \* the GETs made to the search endpoint
    update_log,       \* the batches handed to update_memory
    parser            \* the DuckDuckGoHTMLParser of the parser specification

vars ==
    <<pc, raw_input, user_question, api_key, constructed, question, plan, notes,
      sources, iterations, max_iterations, done, memory, content, round_notes,
      idx, results, completion_log, search_log, update_log, parser>>

locals == <<content, round_notes, idx, results>>
fields == <<question, plan, notes, sources, iterations, max_iterations, done, memory>>
logs == <<completion_log, search_log, update_log>>

EmptyMemory == [short_term |-> <<>>, long_term |-> <<>>]

\* the values every field has by default
Defaults ==
    /\ plan = PyList(<<>>)
    /\ notes = <<>>
    /\ sources = <<>>
    /\ iterations = 0
    /\ max_iterations = DefaultMaxIterations
    /\ done = FALSE
    /\ memory = EmptyMemory

Init ==
    /\ pc = "main"
    /\ raw_input \in RawInputs
    /\ user_question = <<>>
    /\ api_key \in {"unset", "empty", "set"}
    /\ constructed = FALSE
    /\ question = <<>>
    /\ Defaults
    /\ content = <<>>
    /\ round_notes = <<>>
    /\ idx = 1
    /\ results = <<>>
    /\ completion_log = <<>>
    /\ search_log = <<>>
    /\ update_log = <<>>
    /\ parser = NewParser

(* ------------------------------- actions ------------------------------- *)

\* __main__: read the question, strip it, refuse an empty one
MainRead ==
    /\ pc = "main"
    /\ user_question' = Strip(raw_input)
    /\ pc' = IF Strip(raw_input) = <<>> THEN "exit_empty" ELSE "run_research"
    /\ UNCHANGED <<parser, raw_input, api_key, constructed, fields, locals, logs>>

\* run_research: state = ResearchState(question=question); max_iterations is a
\* field of the dataclass, and the loop is modelled for each value up to its default
Construct ==
    /\ pc = "run_research"
    /\ constructed' = TRUE
    /\ question' = user_question
    /\ \E m \in 0..DefaultMaxIterations : max_iterations' = m
    /\ pc' = "make_plan"
    /\ UNCHANGED <<parser, raw_input, user_question, api_key, plan, notes, sources,
                   iterations, done, memory, locals, logs>>

\* what a request to the completion endpoint is built from
Request(kind, q, ns, ss) == [kind |-> kind, question |-> q, notes |-> ns, sources |-> ss]

\* the messages of make_plan: the question, to be split into sub-questions
PlanRequest(q) == Request("plan", q, <<>>, <<>>)

\* sources_text: one "- title (url)" line per source, the snippet left out
SourcesText(ss) == [i \in 1..Len(ss) |-> [title |-> ss[i].title, url |-> ss[i].url]]

\* a summary asked for from the notes alone
SummarizeRequestNoSources(ns, ss) == Request("summarize", <<>>, ns, <<>>)

\* the messages of summarize_findings: every note, one per line, and sources_text
SummarizeRequest(ns, ss) == Request("summarize", <<>>, ns, SourcesText(ss))

\* only an unset variable counts as missing
KeyMissingOnlyNone(key) == key = "unset"

\* "if not api_key": os.getenv gave None or the empty string
KeyMissing(key) == key \in {"unset", "empty"}

\* call_openrouter raises before any request when the key is not set
NoCredential ==
    /\ KeyMissing(api_key)
    /\ pc' = "error_config"
    /\ UNCHANGED <<parser, raw_input, user_question, api_key, constructed, fields,
                   locals, logs>>

\* the POST fails, or its answer has no choices[0].message.content
CompletionFails(req) ==
    /\ ~KeyMissing(api_key)
    /\ completion_log' = Append(completion_log, req)
    /\ pc' = "error_tool"
    /\ UNCHANGED <<parser, raw_input, user_question, api_key, constructed, fields,
                   locals, search_log, update_log>>

\* state.plan = make_plan(question), the answer parsed
PlanReturns ==
    /\ ~KeyMissing(api_key)
    /\ completion_log' = Append(completion_log, PlanRequest(question))
    /\ \E text \in CompletionTexts :
          /\ content' = text
          /\ plan' = MakePlan(question, text)
    /\ pc' = "loop"
    /\ UNCHANGED <<parser, raw_input, user_question, api_key, constructed, question, notes,
                   sources, iterations, max_iterations, done, memory, round_notes,
                   idx, results, search_log, update_log>>

Plan ==
    /\ pc = "make_plan"
    /\ \/ NoCredential
       \/ CompletionFails(PlanRequest(question))
       \/ PlanReturns


\* a loop that goes on although done is set
WhileIgnoresDone(d, i, m) == i < m

\* a loop that goes on although max_iterations is reached
WhileIgnoresBound(d, i, m) == ~d

\* not state.done and state.iterations < state.max_iterations
WhileCondition(d, i, m) == ~d /\ i < m

\* the increment left out
IterationsUnchanged(i) == i

\* state.iterations += 1
NextIteration(i) == i + 1

\* while not state.done and state.iterations < state.max_iterations: enter a round
LoopEnter ==
    /\ pc = "loop"
    /\ WhileCondition(done, iterations, max_iterations)
    /\ iterations' = NextIteration(iterations)
    /\ round_notes' = <<>>
    /\ idx' = 1
    /\ pc' = "for"
    /\ UNCHANGED <<parser, raw_input, user_question, api_key, constructed, question, plan,
                   notes, sources, max_iterations, done, memory, content, results,
                   logs>>

\* the while condition is false
LoopExit ==
    /\ pc = "loop"
    /\ ~WhileCondition(done, iterations, max_iterations)
    /\ pc' = "summarize"
    /\ UNCHANGED <<parser, raw_input, user_question, api_key, constructed, fields, locals, logs>>

\* for sub_question in state.plan: the plan cannot be iterated (TypeError)
ForNotIterable ==
    /\ pc = "for"
    /\ ~Iterable(plan)
    /\ pc' = "error_type"
    /\ UNCHANGED <<parser, raw_input, user_question, api_key, constructed, fields, locals, logs>>

\* the for loop has no entry left
ForEnd ==
    /\ pc = "for"
    /\ Iterable(plan) /\ idx > Len(plan.items)
    /\ pc' = "update_memory"
    /\ UNCHANGED <<parser, raw_input, user_question, api_key, constructed, fields, locals, logs>>

SearchCall(query, ok, res) == [query |-> query, ok |-> ok, results |-> res]

\* a failed search caught, taken as zero results, the round going on
SearchFailsIsolated ==
    /\ pc = "for"
    /\ Iterable(plan) /\ idx <= Len(plan.items)
    /\ results' = <<>>
    /\ search_log' = Append(search_log, SearchCall(plan.items[idx], FALSE, <<>>))
    /\ pc' = "append"
    /\ UNCHANGED <<parser, raw_input, user_question, api_key, constructed, fields,
                   content, round_notes, idx, completion_log, update_log>>

\* results = search_web(sub_question): the GET fails or raise_for_status raises
SearchFails ==
    /\ pc = "for"
    /\ Iterable(plan) /\ idx <= Len(plan.items)
    /\ search_log' = Append(search_log, SearchCall(plan.items[idx], FALSE, <<>>))
    /\ pc' = "error_tool"
    /\ UNCHANGED <<parser, raw_input, user_question, api_key, constructed, fields, locals,
                   completion_log, update_log>>

\* results = search_web(sub_question): the page is parsed and cut to max_results
SearchReturns ==
    /\ pc = "for"
    /\ Iterable(plan) /\ idx <= Len(plan.items)
    /\ \E parsed \in Pages :
          /\ results' = SearchWeb(parsed, DefaultMaxResults)
          /\ search_log' = Append(search_log,
                SearchCall(plan.items[idx], TRUE, SearchWeb(parsed, DefaultMaxResults)))
    /\ pc' = "append"
    /\ UNCHANGED <<parser, raw_input, user_question, api_key, constructed, fields,
                   content, round_notes, idx, completion_log, update_log>>

\* results already among the sources are skipped
RECURSIVE ExtendSourcesDedup(_, _)
ExtendSourcesDedup(srcs, res) ==
    IF res = <<>> THEN srcs
    ELSE IF \E i \in 1..Len(srcs) : srcs[i] = Head(res)
         THEN ExtendSourcesDedup(srcs, Tail(res))
         ELSE ExtendSourcesDedup(Append(srcs, Head(res)), Tail(res))

\* the new results put in front of the old ones
ExtendSourcesFront(srcs, res) == res \o srcs

\* state.sources.extend(results)
ExtendSources(srcs, res) == srcs \o res

\* state.sources.extend(results); round_notes.append(...)
AppendResults ==
    /\ pc = "append"
    /\ sources' = ExtendSources(sources, results)
    /\ round_notes' = Append(round_notes, Note(plan.items[idx], Len(results)))
    /\ idx' = idx + 1
    /\ pc' = "for"
    /\ UNCHANGED <<parser, raw_input, user_question, api_key, constructed, question, plan,
                   notes, iterations, max_iterations, done, memory, content, results,
                   logs>>

\* a memory manager that also appends the batch to state.notes
RoundUpdateMemoryAndNotes ==
    /\ pc = "update_memory"
    /\ memory' = UpdateMemory(memory, round_notes)
    /\ notes' = notes \o round_notes
    /\ update_log' = Append(update_log, round_notes)
    /\ pc' = "extend_notes"
    /\ UNCHANGED <<parser, raw_input, user_question, api_key, constructed, question, plan,
                   sources, iterations, max_iterations, done, locals,
                   completion_log, search_log>>

\* update_memory(state, round_notes)
RoundUpdateMemory ==
    /\ pc = "update_memory"
    /\ memory' = UpdateMemory(memory, round_notes)
    /\ update_log' = Append(update_log, round_notes)
    /\ pc' = "extend_notes"
    /\ UNCHANGED <<parser, raw_input, user_question, api_key, constructed, question, plan,
                   notes, sources, iterations, max_iterations, done, locals,
                   completion_log, search_log>>

\* state.notes.extend(round_notes)
RoundExtendNotes ==
    /\ pc = "extend_notes"
    /\ notes' = notes \o round_notes
    /\ pc' = "set_done"
    /\ UNCHANGED <<parser, raw_input, user_question, api_key, constructed, question, plan,
                   sources, iterations, max_iterations, done, memory, locals, logs>>

\* a policy that never stops the loop
DecideNever(d) == d

\* the stopping policy of the round
Decide(d) == TRUE

\* state.done = True; time.sleep(0.5)
RoundSetDone ==
    /\ pc = "set_done"
    /\ done' = Decide(done)
    /\ pc' = "loop"
    /\ UNCHANGED <<parser, raw_input, user_question, api_key, constructed, question, plan,
                   notes, sources, iterations, max_iterations, memory, locals, logs>>

\* final_report = summarize_findings(state), printed
SummarizeReturns ==
    /\ ~KeyMissing(api_key)
    /\ completion_log' =
          Append(completion_log, SummarizeRequest(notes, sources))
    /\ pc' = "finished"
    /\ UNCHANGED <<parser, raw_input, user_question, api_key, constructed, fields, locals,
                   search_log, update_log>>

Summarize ==
    /\ pc = "summarize"
    /\ \/ NoCredential
       \/ CompletionFails(SummarizeRequest(notes, sources))
       \/ SummarizeReturns

Next ==
    \/ MainRead
    \/ Construct
    \/ Plan
    \/ LoopEnter
    \/ LoopExit
    \/ ForNotIterable
    \/ ForEnd
    \/ SearchFails
    \/ SearchReturns
    \/ AppendResults
    \/ RoundUpdateMemory
    \/ RoundExtendNotes
    \/ RoundSetDone
    \/ Summarize

Spec == Init /\ [][Next]_vars

\* the process is sequential and every call returns or raises: a step that can
\* be taken is taken
SpecFair == Init /\ [][Next]_vars /\ WF_vars(Next)

(* ------------- the memory manager on its own: SpecMemory --------------- *)

Facts == <<"x", "y", "z">>

\* a batch of n facts: one fact repeated (step 0) or the facts in rotation (step 1)
Batch(n, start, step) == [i \in 1..n |-> Facts[((start + i * step) % Len(Facts)) + 1]]

Batches == {Batch(n, start, step) : n \in 0..MaxBatch, start \in 0..1, step \in 0..1}

\* a constructed state with its defaults, about to be handed to update_memory
InitMemory ==
    /\ pc = "memory"
    /\ raw_input = <<"a">>
    /\ user_question = <<"a">>
    /\ api_key = "set"
    /\ constructed = TRUE
    /\ question = <<"a">>
    /\ Defaults
    /\ content = <<>>
    /\ round_notes = <<>>
    /\ idx = 1
    /\ results = <<>>
    /\ completion_log = <<>>
    /\ search_log = <<>>
    /\ update_log = <<>>
    /\ parser = NewParser

\* update_memory(state, new_facts) for any batch
MemoryCall ==
    /\ pc = "memory"
    /\ Len(update_log) < MaxCalls
    /\ \E new_facts \in Batches :
          /\ memory' = UpdateMemory(memory, new_facts)
          /\ update_log' = Append(update_log, new_facts)
    /\ UNCHANGED <<pc, parser, raw_input, user_question, api_key, constructed, question,
                   plan, notes, sources, iterations, max_iterations, done, locals,
                   completion_log, search_log>>

NextMemory == MemoryCall

SpecMemory == InitMemory /\ [][NextMemory]_vars

(* ------------- the parser and search_web on a page: SpecParser --------- *)

Tags == {"a", "div"}

\* the attribute lists of the start tags of a page
AttrLists ==
    { <<>>,
      <<Attr("class", ResultClass)>>,
      <<Attr("class", ResultClass), Attr("href", <<"u">>)>>,
      <<Attr("href", <<"v">>), Attr("class", ResultClass), Attr("href", <<"u">>)>>,
      <<Attr("class", ResultClass), Attr("href", <<>>)>>,
      <<Attr("class", <<"other">>), Attr("href", <<"u">>)>>,
      <<Attr("href", <<"u">>)>> }

\* the pieces of text between tags
DataChunks == {<<" ">>, <<"a">>}

\* search_web has its response and a fresh parser
InitParser ==
    /\ pc = "feed"
    /\ raw_input = <<"a">>
    /\ user_question = <<"a">>
    /\ api_key = "set"
    /\ constructed = TRUE
    /\ question = <<"a">>
    /\ Defaults
    /\ content = <<>>
    /\ round_notes = <<>>
    /\ idx = 1
    /\ results = <<>>
    /\ completion_log = <<>>
    /\ search_log = <<>>
    /\ update_log = <<>>
    /\ parser = NewParser

nonparser ==
    <<pc, raw_input, user_question, api_key, constructed, fields, locals, logs>>

\* parser.feed meets a start tag
FeedStartTag ==
    /\ pc = "feed"
    /\ \E tag \in Tags, attrs \in AttrLists : parser' = HandleStartTag(parser, tag, attrs)
    /\ UNCHANGED nonparser

\* parser.feed meets an end tag
FeedEndTag ==
    /\ pc = "feed"
    /\ Len(parser.results) < MaxRecorded
    /\ \E tag \in Tags : parser' = HandleEndTag(parser, tag)
    /\ UNCHANGED nonparser

\* parser.feed meets text
FeedData ==
    /\ pc = "feed"
    /\ Len(parser.current_title) < MaxTitleLen
    /\ \E data \in DataChunks : parser' = HandleData(parser, data)
    /\ UNCHANGED nonparser

\* the page is at its end: search_web builds and returns its list
SearchWebReturns ==
    /\ pc = "feed"
    /\ results' = SearchWeb(parser.results, DefaultMaxResults)
    /\ pc' = "searched"
    /\ UNCHANGED <<parser, raw_input, user_question, api_key, constructed, fields,
                   content, round_notes, idx, logs>>

NextParser ==
    \/ FeedStartTag
    \/ FeedEndTag
    \/ FeedData
    \/ SearchWebReturns

SpecParser == InitParser /\ [][NextParser]_vars

(* ------- the end of a round over a long plan: SpecRound ---------------- *)

\* a plan of n sub-questions: one repeated (alt = 0) or two in turn (alt = 1)
LongPlan(n, alt) == [i \in 1..n |-> IF alt = 1 /\ i % 2 = 0 THEN <<"b">> ELSE <<"a">>]

\* what the i-th search of the round returned: nothing (hits = 0), or one or
\* two results in turn (hits = 1)
RoundResults(i, hits) == SearchWeb(Take(Anchors, hits * (1 + (i % 2))), DefaultMaxResults)

\* the searches of a round over items, all returned
RoundSearches(items, hits) ==
    [i \in 1..Len(items) |-> SearchCall(items[i], TRUE, RoundResults(i, hits))]

RECURSIVE RoundSources(_, _)
RoundSources(n, hits) ==
    IF n = 0 THEN <<>> ELSE RoundSources(n - 1, hits) \o RoundResults(n, hits)

\* the first round at the end of its for loop: the planner returned a list of
\* up to MaxRoundPlan sub-questions and every search has returned
InitRound ==
    \E n \in 0..MaxRoundPlan, alt \in 0..1, hits \in 0..1, m \in 1..DefaultMaxIterations :
        /\ pc = "for"
        /\ raw_input = <<"a">>
        /\ user_question = <<"a">>
        /\ api_key = "set"
        /\ constructed = TRUE
        /\ question = <<"a">>
        /\ plan = PyList(LongPlan(n, alt))
        /\ notes = <<>>
        /\ sources = RoundSources(n, hits)
        /\ iterations = 1
        /\ max_iterations = m
        /\ done = FALSE
        /\ memory = EmptyMemory
        /\ content = ListText(LongPlan(n, alt))
        /\ round_notes =
              [i \in 1..n |-> Note(LongPlan(n, alt)[i], Len(RoundResults(i, hits)))]
        /\ idx = n + 1
        /\ results = IF n = 0 THEN <<>> ELSE RoundResults(n, hits)
        /\ completion_log = <<PlanRequest(<<"a">>)>>
        /\ search_log = RoundSearches(LongPlan(n, alt), hits)
        /\ update_log = <<>>
        /\ parser = NewParser

NextRound ==
    \/ ForEnd
    \/ RoundUpdateMemory
    \/ RoundExtendNotes
    \/ RoundSetDone
    \/ LoopExit
    \/ Summarize

SpecRound == InitRound /\ [][NextRound]_vars

(* -------------------------------- claims ------------------------------- *)

\* the batches of a log, concatenated in call order
RECURSIVE Flatten(_)
Flatten(ss) == IF ss = <<>> THEN <<>> ELSE Head(ss) \o Flatten(Tail(ss))

\* the number of entries in all batches of a log
RECURSIVE SumLen(_)
SumLen(ss) == IF ss = <<>> THEN 0 ELSE Len(Head(ss)) + SumLen(Tail(ss))

\* the while loop has been left normally
LoopExited == pc \in {"summarize", "finished"}

\* make_plan has returned and state.plan is assigned
AfterPlanning ==
    pc \in {"loop", "for", "append", "update_memory", "extend_notes", "set_done",
            "summarize", "finished", "error_type"}

\* the for loop of the first round has run to its end
RoundCompleted ==
    /\ iterations = 1
    /\ pc \in {"update_memory", "extend_notes", "set_done", "loop", "summarize",
               "finished"}

\* C1: with max_iterations >= 1 the loop body runs exactly once: a second round
\* never starts, and when the loop is left iterations = 1 and done is true,
\* whatever max_iterations is.
C1_ExactlyOneRound ==
    max_iterations >= 1 =>
        /\ iterations <= 1
        /\ Len(update_log) <= 1
        /\ LoopExited => (iterations = 1 /\ done = TRUE /\ Len(update_log) = 1)

C1_Witness ==
    /\ pc = "finished"
    /\ max_iterations = DefaultMaxIterations
    /\ Len(plan.items) = 2
    /\ iterations = 1
    /\ done = TRUE

\* C2: after planning, state.plan is a non-empty sequence, whatever text the
\* completion tool returned.
C2_PlanNonEmpty ==
    AfterPlanning => (plan.type = "list" /\ plan.items # <<>>)

\* C3: when the planning output is not a valid structured list (malformed, or
\* well-formed but an object, a string, a number), make_plan returns [question].
C3_NonListFallsBack ==
    (AfterPlanning /\ content \notin ListTexts) => plan = PyList(<<question>>)

\* C4: long_term never exceeds 20 entries and is the last 20 entries of all
\* batches supplied so far, concatenated in call order.
C4_LongTermWindow ==
    LET all == Flatten(update_log)
        lt == memory.long_term
        n == Len(lt)
    IN  /\ n <= 20
        /\ n = Min(20, Len(all))
        /\ \A i \in 1..n : lt[i] = all[Len(all) - n + i]

C4_Witness ==
    /\ Len(update_log) = 2
    /\ update_log[1] # <<>> /\ update_log[2] # <<>>
    /\ SumLen(update_log) > 20
    /\ Len(memory.long_term) = 20
    /\ memory.long_term # update_log[2]

\* C5: after every update_memory call short_term is the first 10 entries of the
\* batch of that call (the whole batch when it is shorter), and nothing else.
C5_ShortTermIsLastBatch ==
    Len(update_log) >= 1 =>
        LET batch == update_log[Len(update_log)]
            st == memory.short_term
        IN  /\ Len(st) <= 10
            /\ Len(st) = Min(10, Len(batch))
            /\ \A i \in 1..Len(st) : st[i] = batch[i]

C5_Witness ==
    /\ Len(update_log) = 2
    /\ Len(update_log[1]) > 10
    /\ Len(update_log[2]) > 10
    /\ update_log[1][1] # update_log[2][1]
    /\ Len(memory.short_term) = 10

\* the result counts of the search calls, added up
RECURSIVE SumResults(_)
SumResults(log) ==
    IF log = <<>> THEN 0 ELSE Len(Head(log).results) + SumResults(Tail(log))

\* C6: after one completed round there is one search call per plan entry (a
\* repeated entry is searched again) and len(sources) is the sum of the result
\* counts those calls returned.
C6_SourcesCount ==
    RoundCompleted =>
        /\ Len(search_log) = Len(plan.items)
        /\ \A i \in 1..Len(search_log) : search_log[i].ok
        /\ Len(sources) = SumResults(search_log)

C6_Witness ==
    /\ RoundCompleted
    /\ Len(plan.items) = 2
    /\ plan.items[1] = plan.items[2]
    /\ Len(sources) >= 3
    /\ \E i, j \in 1..Len(sources) : i # j /\ sources[i] = sources[j]

\* the result lists of the search calls, concatenated in call order
RECURSIVE ConcatResults(_)
ConcatResults(log) ==
    IF log = <<>> THEN <<>> ELSE Head(log).results \o ConcatResults(Tail(log))

\* C7: the search calls follow the plan in order, one per entry, and when the
\* call for an entry is issued the results of all earlier calls are already in
\* sources: sources is the concatenation of the result lists in plan order.
C7_PlanOrder ==
    /\ \A i \in 1..Len(search_log) :
          /\ i <= Len(plan.items)
          /\ search_log[i].query = plan.items[i]
    /\ pc = "for" =>
          /\ Len(search_log) = idx - 1
          /\ sources = ConcatResults(search_log)
    /\ pc = "append" =>
          /\ Len(search_log) = idx
          /\ sources = ConcatResults(SubSeq(search_log, 1, idx - 1))
    /\ RoundCompleted =>
          /\ Len(search_log) = Len(plan.items)
          /\ sources = ConcatResults(search_log)

C7_Witness ==
    /\ pc = "append"
    /\ idx = 2
    /\ plan.items[1] # plan.items[2]
    /\ search_log[1].results # <<>>
    /\ search_log[2].results # <<>>
    /\ search_log[1].results # search_log[2].results
    /\ sources = search_log[1].results

\* C8: without the credential no request is sent to the completion endpoint, no
\* search is made and no round starts: the run stops at the planner.
C8_NoCredentialNoWork ==
    api_key # "set" =>
        /\ completion_log = <<>>
        /\ search_log = <<>>
        /\ update_log = <<>>
        /\ iterations = 0
        /\ notes = <<>> /\ sources = <<>> /\ memory = EmptyMemory
        /\ pc \in {"main", "exit_empty", "run_research", "make_plan", "error_config"}

C8_Witness ==
    /\ pc = "error_config"
    /\ api_key = "unset"
    /\ constructed
    /\ completion_log = <<>>

\* the line is empty or holds only whitespace
Blank(s) == \A i \in 1..Len(s) : s[i] \in {" ", "\t"}

\* C9: an empty or whitespace-only line ends the run before a ResearchState is
\* constructed and before any search or completion call.
C9_BlankQuestionStops ==
    Blank(raw_input) =>
        /\ ~constructed
        /\ completion_log = <<>>
        /\ search_log = <<>>
        /\ pc \in {"main", "exit_empty"}

C9_Witness ==
    /\ pc = "exit_empty"
    /\ Len(raw_input) = 2
    /\ Blank(raw_input)
    /\ ~constructed

\* the step is an update_memory call with the batch of the call before it
SameBatchAgain ==
    /\ Len(update_log) >= 1
    /\ update_log' = Append(update_log, update_log[Len(update_log)])

\* C10 as stated: a second update_memory call with the same batch leaves
\* short_term and long_term as the first call left them.
C10_Idempotent == [][SameBatchAgain => memory' = memory]_vars

\* C10 amended: a second call with the same batch F leaves short_term as the
\* first call left it, and long_term is the last 20 entries of what the first
\* call left followed by F once more.
C10_AppendsAgain ==
    [][SameBatchAgain =>
          LET F == update_log[Len(update_log)]
              both == memory.long_term \o F
              lt == memory'.long_term
          IN  /\ memory'.short_term = memory.short_term
              /\ Len(lt) = Min(20, Len(both))
              /\ \A i \in 1..Len(lt) : lt[i] = both[Len(both) - Len(lt) + i]]_vars

C10_Witness ==
    /\ Len(update_log) = 2
    /\ update_log[1] = update_log[2]
    /\ Len(update_log[1]) = 3
    /\ Len(memory.long_term) = 6
    /\ Len(memory.short_term) = 3

\* the run has ended, normally or by an exception
Terminated ==
    pc \in {"exit_empty", "error_config", "error_tool", "error_type", "finished"}

\* C11: once done is true it stays true, and from then on no round starts, no
\* search is made, and iterations and memory keep their values to the end of
\* the run, the summarizer call included.
C11_DoneIsTerminal ==
    [][done =>
          /\ done'
          /\ iterations' = iterations
          /\ memory' = memory
          /\ search_log' = search_log
          /\ update_log' = update_log
          /\ pc' \in {"loop", "summarize", "finished", "error_tool"}]_vars

C11_Witness ==
    /\ pc = "finished"
    /\ done
    /\ iterations = 1
    /\ max_iterations = DefaultMaxIterations
    /\ memory.short_term # <<>>
    /\ Len(completion_log) = 2

\* the while loop is being executed
InLoop ==
    pc \in {"loop", "for", "append", "update_memory", "extend_notes", "set_done"}

\* C12: for max_iterations >= 0 the loop is always left (normally or by an
\* exception of a tool), and when it is left normally iterations <=
\* max_iterations and done is true or iterations = max_iterations.
C12_LoopTerminates ==
    /\ [](LoopExited =>
            /\ iterations <= max_iterations
            /\ (done \/ iterations = max_iterations))
    /\ [](InLoop => <>(~InLoop))

C12_Witness ==
    /\ LoopExited
    /\ max_iterations = 0
    /\ iterations = max_iterations
    /\ ~done
    /\ plan.items # <<>>

\* C13: a failed search ends the run there: it is the last search made, the
\* round's memory update and notes append do not happen, done stays false and
\* the summarizer is not called.
C13_SearchFailureAborts ==
    \A i \in 1..Len(search_log) :
        ~search_log[i].ok =>
            /\ i = Len(search_log)
            /\ pc = "error_tool"
            /\ update_log = <<>>
            /\ memory = EmptyMemory
            /\ notes = <<>>
            /\ ~done
            /\ Len(completion_log) = 1
            /\ completion_log[1].kind = "plan"

C13_Witness ==
    /\ pc = "error_tool"
    /\ Len(plan.items) = 2
    /\ Len(search_log) = 1
    /\ ~search_log[1].ok
    /\ iterations = 1
    /\ notes = <<>>

\* the rounds whose memory update and notes append have both finished
CompletedRounds == Len(update_log) - (IF pc = "extend_notes" THEN 1 ELSE 0)

\* a round has started and not completed: the process is inside it, or an
\* exception ended the run inside it
MidRound ==
    \/ pc \in {"for", "append", "update_memory", "extend_notes"}
    \/ pc = "error_type"
    \/ pc = "error_tool" /\ search_log # <<>> /\ ~search_log[Len(search_log)].ok

\* C14 as stated: iterations starts at 0, grows by one at a time, and in every
\* state is at most the number of completed rounds.
C14_CountsCompleted ==
    /\ [](iterations <= CompletedRounds)
    /\ [][iterations' = iterations \/ iterations' = iterations + 1]_vars

\* C14 amended: iterations counts the rounds started: it grows by one exactly
\* when a round is entered, never otherwise, and is the number of completed
\* rounds plus one while a round is under way or was aborted.
C14_CountsStarted ==
    /\ [](iterations = CompletedRounds + (IF MidRound THEN 1 ELSE 0))
    /\ [][\/ iterations' = iterations /\ ~(pc = "loop" /\ pc' = "for")
          \/ iterations' = iterations + 1 /\ pc = "loop" /\ pc' = "for"]_vars

C14_Witness ==
    /\ pc = "append"
    /\ idx = 2
    /\ iterations = 1
    /\ update_log = <<>>
    /\ notes = <<>>

\* the notes of the first round have been appended
NotesAppended ==
    \/ pc = "set_done"
    \/ iterations = 1 /\ pc \in {"loop", "summarize", "finished"}

IsPrefix(s, t) == Len(s) <= Len(t) /\ \A i \in 1..Len(s) : s[i] = t[i]

\* C15: a completed round leaves one note per plan entry, in plan order, each
\* with its sub-question and the number of results its search returned; the
\* batch given to update_memory is the batch appended to notes; notes only grows
\* at its end.
C15_NotesPerEntry ==
    /\ [](NotesAppended =>
            /\ Len(notes) = Len(plan.items)
            /\ Len(search_log) = Len(plan.items)
            /\ \A i \in 1..Len(notes) :
                  /\ notes[i].sub = plan.items[i]
                  /\ notes[i].n = Len(search_log[i].results)
            /\ update_log = <<notes>>)
    /\ [][IsPrefix(notes, notes')]_vars

C15_Witness ==
    /\ pc = "finished"
    /\ Len(notes) = 2
    /\ notes[1].sub # notes[2].sub
    /\ notes[1].n = 2
    /\ notes[2].n = 0
    /\ update_log = <<notes>>

\* C16: the completion tool is called for planning before any search or memory
\* update, and at most once more, for summarizing, after which no search and no
\* memory update follows; a run that finishes has made exactly these two calls,
\* and the summarizer's request holds all notes and the title and url of all
\* sources.
C16_PlanLoopSummarize ==
    /\ [](/\ Len(completion_log) <= 2
          /\ completion_log = <<>> => (search_log = <<>> /\ update_log = <<>>)
          /\ Len(completion_log) >= 1 =>
                (completion_log[1].kind = "plan" /\ completion_log[1].question = question)
          /\ Len(completion_log) = 2 => completion_log[2].kind = "summarize"
          /\ pc = "finished" =>
                /\ Len(completion_log) = 2
                /\ completion_log[2].notes = notes
                /\ Len(completion_log[2].sources) = Len(sources)
                /\ \A i \in 1..Len(sources) :
                      /\ completion_log[2].sources[i].title = sources[i].title
                      /\ completion_log[2].sources[i].url = sources[i].url)
    /\ [][Len(completion_log) = 2 =>
             /\ completion_log' = completion_log
             /\ search_log' = search_log
             /\ update_log' = update_log
             /\ notes' = notes
             /\ sources' = sources]_vars

C16_Witness ==
    /\ pc = "finished"
    /\ Len(completion_log) = 2
    /\ Len(search_log) = 2
    /\ Len(update_log) = 1
    /\ Len(completion_log[2].notes) = 2
    /\ Len(completion_log[2].sources) = 3

\* C17: once the plan is assigned, no step of the loop or of the summarizer
\* changes question, plan or max_iterations; the update_memory step changes the
\* two buffers of memory and leaves notes, sources, iterations, done and plan
\* as they are.
C17_Frame ==
    [][/\ pc \notin {"main", "run_research", "make_plan"} =>
             /\ question' = question
             /\ plan' = plan
             /\ max_iterations' = max_iterations
       /\ pc = "update_memory" =>
             /\ DOMAIN memory' = {"short_term", "long_term"}
             /\ notes' = notes
             /\ sources' = sources
             /\ iterations' = iterations
             /\ done' = done
             /\ plan' = plan]_vars

C17_Witness ==
    /\ pc = "extend_notes"
    /\ memory.long_term # <<>>
    /\ memory.short_term = round_notes
    /\ notes = <<>>
    /\ sources # <<>>
    /\ ~done

\* the batch of the most recent update_memory call, if any
LastBatch == IF update_log = <<>> THEN <<>> ELSE update_log[Len(update_log)]

\* C18: except between the update_memory call and the notes append of a round,
\* long_term is the last 20 entries of notes and short_term is the first 10
\* entries of the latest round's batch of notes.
C18_MemoryMirrorsNotes ==
    pc # "extend_notes" =>
        LET lt == memory.long_term
            st == memory.short_term
        IN  /\ Len(lt) = Min(20, Len(notes))
            /\ \A i \in 1..Len(lt) : lt[i] = notes[Len(notes) - Len(lt) + i]
            /\ Len(st) = Min(10, Len(LastBatch))
            /\ \A i \in 1..Len(st) : st[i] = LastBatch[i]
            /\ IsPrefix(LastBatch, LastN(notes, Len(LastBatch)))

C18_Witness ==
    /\ pc = "finished"
    /\ Len(notes) = 21
    /\ notes[1] # notes[2]
    /\ Len(memory.long_term) = 20
    /\ memory.long_term[1] = notes[2]
    /\ Len(memory.short_term) = 10

\* C19: whatever start tags, text and end tags are fed, every result the
\* parser records has a non-empty title and a non-empty url, results are
\* recorded in document order (appended as their anchors close), and search_web
\* returns the first max_results of them at most, each with an empty snippet.
C19_ResultsWellFormed ==
    /\ [](\A i \in 1..Len(parser.results) :
              parser.results[i].title # <<>> /\ parser.results[i].url # <<>>)
    /\ [](pc = "searched" =>
              /\ Len(results) <= DefaultMaxResults
              /\ Len(results) = Min(DefaultMaxResults, Len(parser.results))
              /\ \A i \in 1..Len(results) :
                    /\ results[i].title = parser.results[i].title
                    /\ results[i].url = parser.results[i].url
                    /\ results[i].snippet = <<>>)
    /\ [][IsPrefix(parser.results, parser'.results)]_vars

====
